---- MODULE Spec2Model ----
(***************************************************************************)
(* Hyrule Map Explorer (cmd/main.go): the Game struct built by main, the   *)
(* per-frame Update (arrow-key pan, WASD movement, player clamp, camera    *)
(* follow, audio re-start by polling) and the scale/offset part of Draw.   *)
(*                                                                         *)
(* px and py are float64 in the source.  They start at an integer, move by *)
(* 3.0 and are clamped to integers, so they are integers throughout and    *)
(* are kept as integers here; the one place halves appear (line 113) is    *)
(* computed in half-pixels.  The float64 arithmetic of Draw is modelled    *)
(* with its IEEE-754 rounding (53-bit significand, round to nearest even). *)
(***************************************************************************)
EXTENDS Integers, Sequences

VARIABLES
    pc,        \* position of the program: "main", "exited", "ready", "running"
    bg,        \* bounds of the decoded background image, [w, h]
    g,         \* the Game struct (main.go:17-31)
    silent,    \* the Game of the same run had the music failed to load
    pressed,   \* keys the engine reports as held (ebiten.IsKeyPressed)
    playing,   \* audio.Player.IsPlaying() of g.audioPlayer
    musicErr,  \* which step of the music set-up failed, or "none"
    audioLog,  \* the audio calls issued by the last Update
    polled,    \* what the last Update saw: "none", "noPlayer", "playing", "stopped"
    screen,    \* the screen size Layout returned, [w, h]
    xf         \* the transform of the last Draw, NoTransform before the first

vars == <<pc, bg, g, silent, pressed, playing, musicErr, audioLog, polled, screen, xf>>

Nil == "nil"

\* a nil *ebiten.Image
NilImage == [w |-> -1, h |-> -1]

\* no Draw has computed a transform yet
NoTransform == [drawn |-> FALSE]

----------------------------------------------------------------------------
(* Program constants *)

targetTile == 512
moveDelta == 1
playerSpeed == 3
WindowW == 1024
WindowH == 768

(* Bounds of the model *)

\* the small maps of the game-loop specification are 20..MaxSmallBg pixels wide
MaxSmallBg == 27
\* background widths and heights 1..MaxBg in the tile-size specification
MaxBg == 2060

Keys == {"Right", "Left", "Down", "Up", "W", "S", "A", "D"}
ArrowKeys == {"Right", "Left", "Down", "Up"}

\* background sizes of the game-loop specification: a wide and a tall map of
\* two tiles on the long side (tile of 256, even, and of 257, odd), a map
\* whose single tile is wider than the player is tall, and small maps from
\* below the 23-pixel player to above it on either axis
BgSizes ==
    { [w |-> 513, h |-> 10], [w |-> 10, h |-> 515], [w |-> 40, h |-> 24] }
        \cup { [w |-> n, h |-> 20 + MaxSmallBg - n] : n \in 20..MaxSmallBg }

\* background sizes of the tile-size specification: every width and every
\* height in 1..MaxBg
TileBgSizes == { [w |-> n, h |-> MaxBg + 1 - n] : n \in 1..MaxBg }

\* background sizes of the drawing specification (tiles of 500, 500, 322,
\* 300, 256 by 257, 7 by 49 pixels)
DrawBgSizes ==
    { [w |-> 1000, h |-> 1000], [w |-> 2000, h |-> 2000], [w |-> 644, h |-> 644],
      [w |-> 600, h |-> 600], [w |-> 513, h |-> 515], [w |-> 7, h |-> 49] }

\* screen sizes the window is resized to
ScreenSizes ==
    { [w |-> 1024, h |-> 768], [w |-> 800, h |-> 600], [w |-> 1280, h |-> 720],
      [w |-> 1920, h |-> 1080], [w |-> 61, h |-> 1], [w |-> 768, h |-> 1024] }

----------------------------------------------------------------------------
(* Helpers *)

Min(a, b) == IF a < b THEN a ELSE b
Max(a, b) == IF a > b THEN a ELSE b

\* Go's int(x) of a float64 x given in halves (x = h/2): truncation toward zero
TruncHalves(h) == IF h >= 0 THEN h \div 2 ELSE -((-h) \div 2)

\* Go's integer division of non-negative operands
IntDiv(a, b) == a \div b

----------------------------------------------------------------------------
(* main *)

\* the number of tiles taken as floor(dim/targetTile) + 1
ColsFloorPlusOne(dim) == Max(1, IntDiv(dim + targetTile, targetTile))

\* main.go:233-240
Cols(dim) == Max(1, IntDiv(dim + targetTile - 1, targetTile))

\* main.go:241-248
TileSize(dim) ==
    LET t == IntDiv(dim, Cols(dim))
    IN  IF t <= 0 THEN dim ELSE t

\* main.go:254-264: int(float64(minScreenDim) * 0.03), at least 1; the product
\* 23.04 is far from an integer, so float64 rounding cannot change the result
PlayerSize ==
    LET minScreenDim == Min(WindowW, WindowH)
    IN  Max(1, IntDiv(minScreenDim * 3, 100))

\* main.go:283-285 and 299-306
NewGame(b, player) ==
    [ bg |-> b, vx |-> 0, vy |-> 0,
      tileW |-> TileSize(b.w), tileH |-> TileSize(b.h),
      px |-> IntDiv(TileSize(b.w), 2) - IntDiv(PlayerSize, 2),
      py |-> IntDiv(TileSize(b.h), 2) - IntDiv(PlayerSize, 2),
      playerW |-> PlayerSize, playerH |-> PlayerSize,
      audioPlayer |-> player ]

----------------------------------------------------------------------------
(* Game.Update *)

\* the restart without the rewind
AudioCallsNoRewind(s, isPlaying) ==
    IF s.audioPlayer # Nil /\ ~isPlaying THEN <<"Play">> ELSE <<>>

\* main.go:48-51
AudioCalls(s, isPlaying) ==
    IF s.audioPlayer # Nil /\ ~isPlaying THEN <<"Rewind", "Play">> ELSE <<>>

\* audio.Player after the calls of one Update: Play() starts it
PlayerAfter(calls, isPlaying) ==
    IF \E i \in 1..Len(calls) : calls[i] = "Play" THEN TRUE ELSE isPlaying

\* main.go:53-67
PanArrows(s, keys) ==
    LET x1 == IF "Right" \in keys THEN s.vx + moveDelta * s.tileW ELSE s.vx
        x2 == IF "Left" \in keys THEN x1 - moveDelta * s.tileW ELSE x1
        y1 == IF "Down" \in keys THEN s.vy + moveDelta * s.tileH ELSE s.vy
        y2 == IF "Up" \in keys THEN y1 - moveDelta * s.tileH ELSE y1
    IN  [s EXCEPT !.vx = x2, !.vy = y2]

\* main.go:68-81
MovePlayer(s, keys) ==
    LET y1 == IF "W" \in keys THEN s.py - playerSpeed ELSE s.py
        y2 == IF "S" \in keys THEN y1 + playerSpeed ELSE y1
        x1 == IF "A" \in keys THEN s.px - playerSpeed ELSE s.px
        x2 == IF "D" \in keys THEN x1 + playerSpeed ELSE x1
    IN  [s EXCEPT !.px = x2, !.py = y2]

\* the player clamp without its right and bottom bounds
ClampPlayerNoMax(s) ==
    [s EXCEPT !.px = IF s.px < 0 THEN 0 ELSE s.px,
              !.py = IF s.py < 0 THEN 0 ELSE s.py]

\* main.go:84-108
ClampPlayer(s) ==
    LET bw == s.bg.w
        bh == s.bg.h
        x1 == IF s.px < 0 THEN 0 ELSE s.px
        y1 == IF s.py < 0 THEN 0 ELSE s.py
        maxPx == IF bw - s.playerW < 0 THEN 0 ELSE bw - s.playerW
        maxPy == IF bh - s.playerH < 0 THEN 0 ELSE bh - s.playerH
    IN  [s EXCEPT !.px = IF x1 > maxPx THEN maxPx ELSE x1,
                  !.py = IF y1 > maxPy THEN maxPy ELSE y1]

\* the viewport centre computed with the half tile added instead of subtracted
DesiredVxPlus(s) == TruncHalves(2 * s.px + s.playerW + s.tileW)

\* the conversion done by flooring instead of Go's truncation toward zero
DesiredVxFloor(s) == (2 * s.px + s.playerW - s.tileW) \div 2

\* main.go:113: int(g.px + float64(g.playerW)/2 - float64(vw)/2)
DesiredVx(s) == TruncHalves(2 * s.px + s.playerW - s.tileW)

\* main.go:114
DesiredVy(s) == TruncHalves(2 * s.py + s.playerH - s.tileH)

\* the viewport clamp without its upper bound
ClampViewNoUpper(d, hi) == IF d < 0 THEN 0 ELSE d

\* main.go:116-127, one axis: lower clamp first, then upper clamp
ClampView(d, hi) ==
    LET d1 == IF d < 0 THEN 0 ELSE d
    IN  IF d1 > hi THEN hi ELSE d1

\* main.go:109-129
FollowCamera(s) ==
    [s EXCEPT !.vx = ClampView(DesiredVx(s), s.bg.w - s.tileW),
              !.vy = ClampView(DesiredVy(s), s.bg.h - s.tileH)]

\* main.go:46-132, the Game fields after one call with `keys` held
Update(s, keys) ==
    LET moved == MovePlayer(PanArrows(s, keys), keys)
    IN  IF s.bg # NilImage THEN FollowCamera(ClampPlayer(moved)) ELSE moved

----------------------------------------------------------------------------
(* float64 arithmetic of Draw.                                             *)
(* An integer too wide for one machine word is a sequence of limbs, most   *)
(* significant first, each in 0..Limb-1.  A float64 is [sign, m, e] with   *)
(* value sign * m * 2^e, m an integer of exactly SigBits bits held in      *)
(* SigLimbs limbs (sign = 0 and m = 0 for zero).  Every operation computes *)
(* the exact result and rounds it to nearest, ties to even, as IEEE-754    *)
(* does.  The operands of Draw are far from overflow and underflow.        *)

LimbBits == 15
Limb == 2^LimbBits
SigBits == 53
SigLimbs == (SigBits + LimbBits - 1) \div LimbBits

BigFromInt(n) == <<n \div Limb, n % Limb>>

RECURSIVE Zeros(_)
Zeros(n) == IF n <= 0 THEN <<>> ELSE <<0>> \o Zeros(n - 1)

RECURSIVE Strip(_)
Strip(N) == IF Len(N) > 0 /\ N[1] = 0 THEN Strip(Tail(N)) ELSE N

\* N in exactly len limbs (len at least the number of significant limbs)
Fit(N, len) == LET t == Strip(N) IN Zeros(len - Len(t)) \o t

RECURSIVE BitLenSmall(_)
BitLenSmall(n) == IF n = 0 THEN 0 ELSE 1 + BitLenSmall(n \div 2)

BitLen(N) ==
    LET t == Strip(N)
    IN  IF Len(t) = 0 THEN 0 ELSE (Len(t) - 1) * LimbBits + BitLenSmall(t[1])

RECURSIVE MulStep(_, _, _, _)
MulStep(N, n, i, carry) ==
    IF i = 0 THEN <<carry>>
    ELSE LET cur == N[i] * n + carry
         IN  MulStep(N, n, i - 1, cur \div Limb) \o <<cur % Limb>>

\* N * n for 0 <= n <= Limb
BigMulSmall(N, n) == MulStep(N, n, Len(N), 0)

RECURSIVE AddStep(_, _, _)
AddStep(N, i, carry) ==
    IF i = 0 THEN <<carry>>
    ELSE LET cur == N[i] + carry
         IN  AddStep(N, i - 1, cur \div Limb) \o <<cur % Limb>>

\* N + n for 0 <= n <= Limb
BigAddSmall(N, n) == AddStep(N, Len(N), n)

RECURSIVE DivStep(_, _, _, _)
DivStep(N, d, i, r) ==
    IF i > Len(N) THEN [q |-> <<>>, r |-> r]
    ELSE LET cur == r * Limb + N[i]
             rest == DivStep(N, d, i + 1, cur % d)
         IN  [q |-> <<cur \div d>> \o rest.q, r |-> rest.r]

\* quotient and remainder of N by d, 0 < d <= Limb
BigDivSmall(N, d) == DivStep(N, d, 1, 0)

\* N * 2^k
BigShiftLeft(N, k) ==
    BigMulSmall(N, 2^(k % LimbBits)) \o Zeros(k \div LimbBits)

RECURSIVE CmpStep(_, _, _)
CmpStep(A, B, i) ==
    IF i > Len(A) THEN 0
    ELSE IF A[i] < B[i] THEN -1
    ELSE IF A[i] > B[i] THEN 1
    ELSE CmpStep(A, B, i + 1)

\* -1, 0, 1 as A is below, equal to, above B
BigCmp(A, B) ==
    LET len == Max(Len(A), Len(B))
    IN  CmpStep(Zeros(len - Len(A)) \o A, Zeros(len - Len(B)) \o B, 1)

RECURSIVE SubStep(_, _, _, _)
SubStep(A, B, i, borrow) ==
    IF i = 0 THEN <<>>
    ELSE LET cur == A[i] - B[i] - borrow
         IN  IF cur < 0 THEN SubStep(A, B, i - 1, 1) \o <<cur + Limb>>
             ELSE SubStep(A, B, i - 1, 0) \o <<cur>>

\* A - B for A >= B
BigSub(A, B) ==
    LET len == Max(Len(A), Len(B))
    IN  SubStep(Zeros(len - Len(A)) \o A, Zeros(len - Len(B)) \o B, len, 0)

\* |A - B|
BigAbsDiff(A, B) == IF BigCmp(A, B) >= 0 THEN BigSub(A, B) ELSE BigSub(B, A)

\* (N + f) / 2^s rounded to nearest, ties to even, for s >= 1, where
\* 0 <= f < 1 and sticky says whether f > 0
RECURSIVE RoundShift(_, _, _)
RoundShift(N, s, sticky) ==
    IF s > LimbBits
    THEN LET d == BigDivSmall(N, Limb)
         IN  RoundShift(d.q, s - LimbBits, sticky \/ d.r # 0)
    ELSE LET d == BigDivSmall(N, 2^s)
             half == 2^(s - 1)
             odd == d.q[Len(d.q)] % 2 = 1
             up == d.r > half \/ (d.r = half /\ (sticky \/ odd))
         IN  IF up THEN BigAddSmall(d.q, 1) ELSE d.q

FZero == [sign |-> 0, m |-> Zeros(SigLimbs), e |-> 0]

\* the float64 nearest to sign * (N + f) * 2^e, f as in RoundShift; a value
\* of at most SigBits bits must come without fraction and is exact
Float(sign, N, e, sticky) ==
    LET bl == BitLen(N)
    IN  IF bl = 0 THEN FZero
        ELSE IF bl <= SigBits
        THEN [sign |-> sign, m |-> Fit(BigShiftLeft(N, SigBits - bl), SigLimbs),
              e |-> e - (SigBits - bl)]
        ELSE LET r == RoundShift(N, bl - SigBits, sticky)
             IN  IF BitLen(r) > SigBits
                 THEN [sign |-> sign, m |-> Fit(BigDivSmall(r, 2).q, SigLimbs),
                       e |-> e + (bl - SigBits) + 1]
                 ELSE [sign |-> sign, m |-> Fit(r, SigLimbs), e |-> e + (bl - SigBits)]

\* float64(n) for an int n, |n| < Limb^2
FromInt(n) ==
    IF n >= 0 THEN Float(1, BigFromInt(n), 0, FALSE) ELSE Float(-1, BigFromInt(-n), 0, FALSE)

\* float64(a) / float64(b) for ints 0 < a < Limb^2, 0 < b <= Limb: the
\* quotient of a * 2^k by b has SigBits + 2 or SigBits + 3 bits, and the
\* remainder is the fraction below them
FDivInts(a, b) ==
    LET k == SigBits + 2 - BitLenSmall(a) + BitLenSmall(b)
        d == BigDivSmall(BigShiftLeft(BigFromInt(a), k), b)
    IN  Float(1, d.q, -k, d.r # 0)

\* float64(n) * x for an int 0 < n <= Limb
FMulInt(n, x) == Float(x.sign, BigMulSmall(x.m, n), x.e, FALSE)

\* float64(n) - x for an int 0 <= n < Limb^2 and x > 0 with x.e <= 0
IntMinusF(n, x) ==
    LET a == BigShiftLeft(BigFromInt(n), -x.e)
        c == BigCmp(a, x.m)
    IN  Float(c, BigAbsDiff(a, x.m), x.e, FALSE)

\* x / 2
FHalf(x) == IF x.sign = 0 THEN x ELSE [x EXCEPT !.e = @ - 1]

\* x < y for x, y > 0
FLess(x, y) == x.e < y.e \/ (x.e = y.e /\ BigCmp(x.m, y.m) < 0)

\* math.Min, the smaller of x, y > 0
FMin(x, y) == IF FLess(x, y) THEN x ELSE y

\* math.Max for x, y > 0
FMax(x, y) == IF FLess(x, y) THEN y ELSE x

\* -1, 0, 1 as x > 0 is below, equal to, above float64(n)
FCmpInt(x, n) == -(IntMinusF(n, x).sign)

\* x > 0 is a float64 nearest to num/den: 2 * |den * m - num * 2^-e| <= den
IsNearest(x, num, den) ==
    LET d == BigAbsDiff(BigMulSmall(x.m, den), BigShiftLeft(BigFromInt(num), -x.e))
    IN  BigCmp(BigMulSmall(d, 2), BigFromInt(den)) <= 0

----------------------------------------------------------------------------
(* Game.Draw *)

\* main.go:139-160: the scale and the centring offsets
DrawTransform(s, scr) ==
    LET sw == scr.w
        sh == scr.h
        vw == s.tileW
        vh == s.tileH
        sx == FDivInts(sw, vw)
        sy == FDivInts(sh, vh)
        scale == FMax(sx, sy)
    IN  [ drawn |-> TRUE, sw |-> sw, sh |-> sh, vw |-> vw, vh |-> vh,
          scale |-> scale,
          dx |-> FHalf(IntMinusF(sw, FMulInt(vw, scale))),
          dy |-> FHalf(IntMinusF(sh, FMulInt(vh, scale))) ]

----------------------------------------------------------------------------
(* Actions *)

NoGame == [bg |-> NilImage]

Started == pc \in {"ready", "running"}

InitOver(sizes) ==
    /\ pc = "main"
    /\ bg \in sizes
    /\ g = NoGame
    /\ silent = NoGame
    /\ pressed = {}
    /\ playing = FALSE
    /\ musicErr = "none"
    /\ audioLog = <<>>
    /\ polled = "none"
    /\ screen = [w |-> WindowW, h |-> WindowH]
    /\ xf = NoTransform

Init == InitOver(BgSizes)

\* main.go:223-226 and 268-271: a required image fails to load, log.Fatalf
MainFatal ==
    /\ pc = "main"
    /\ pc' = "exited"
    /\ UNCHANGED <<bg, g, silent, pressed, playing, musicErr, audioLog, polled, screen, xf>>

\* main.go:220-313 up to the call of RunGame; the music set-up fails at one
\* of its three steps or succeeds and starts the player
Main ==
    /\ pc = "main"
    /\ \E err \in {"none", "open", "decode", "newPlayer"} :
          /\ musicErr' = err
          /\ g' = NewGame(bg, IF err = "none" THEN "player" ELSE Nil)
          /\ playing' = (err = "none")
    /\ silent' = NewGame(bg, Nil)
    /\ pc' = "ready"
    /\ UNCHANGED <<bg, pressed, audioLog, polled, screen, xf>>

KeyDown ==
    /\ pc \in {"ready", "running"}
    /\ \E k \in Keys \ pressed : pressed' = pressed \cup {k}
    /\ UNCHANGED <<pc, bg, g, silent, playing, musicErr, audioLog, polled, screen, xf>>

KeyUp ==
    /\ pc \in {"ready", "running"}
    /\ \E k \in pressed : pressed' = pressed \ {k}
    /\ UNCHANGED <<pc, bg, g, silent, playing, musicErr, audioLog, polled, screen, xf>>

\* the engine's mixer reaches the end of the track
TrackEnds ==
    /\ pc \in {"ready", "running"}
    /\ g.audioPlayer # Nil
    /\ playing
    /\ playing' = FALSE
    /\ UNCHANGED <<pc, bg, g, silent, pressed, musicErr, audioLog, polled, screen, xf>>

\* one frame: the engine calls g.Update()
Frame ==
    /\ pc \in {"ready", "running"}
    /\ pc' = "running"
    /\ g' = Update(g, pressed)
    /\ silent' = Update(silent, pressed)
    /\ audioLog' = AudioCalls(g, playing)
    /\ polled' = IF g.audioPlayer = Nil THEN "noPlayer"
                 ELSE IF playing THEN "playing" ELSE "stopped"
    /\ playing' = PlayerAfter(AudioCalls(g, playing), playing)
    /\ UNCHANGED <<bg, pressed, musicErr, screen, xf>>

Next == MainFatal \/ Main \/ KeyDown \/ KeyUp \/ TrackEnds \/ Frame

Spec == Init /\ [][Next]_vars

\* main.go:216-218: the engine reports the window size, Layout returns it
Layout ==
    /\ Started
    /\ \E size \in ScreenSizes : screen' = size
    /\ UNCHANGED <<pc, bg, g, silent, pressed, playing, musicErr, audioLog, polled, xf>>

\* main.go:134-214: the engine calls g.Draw(screen)
Draw ==
    /\ Started
    /\ g.bg # NilImage
    /\ xf' = DrawTransform(g, screen)
    /\ UNCHANGED <<pc, bg, g, silent, pressed, playing, musicErr, audioLog, polled, screen>>

\* the drawing of a loaded game on screens of several sizes
DrawNext == MainFatal \/ Main \/ Layout \/ Draw

SpecDraw == InitOver(DrawBgSizes) /\ [][DrawNext]_vars

\* main alone, over all background sizes up to MaxBg
TileNext == MainFatal \/ Main

SpecTile == InitOver(TileBgSizes) /\ [][TileNext]_vars

----------------------------------------------------------------------------
(* Properties of the game loop *)

\* the four coordinates Update works on
Coords(s) == <<s.px, s.py, s.vx, s.vy>>

\* the largest player coordinate on an axis of length dim
MaxPlayer(dim, size) == IF dim - size < 0 THEN 0 ELSE dim - size

\* C1: after every Update the player is inside [0, bgWidth-playerW] x
\* [0, bgHeight-playerH], and a coordinate whose upper bound is negative is 0.
C1_PlayerInBounds ==
    pc = "running" =>
        /\ 0 <= g.px /\ g.px <= MaxPlayer(g.bg.w, g.playerW)
        /\ 0 <= g.py /\ g.py <= MaxPlayer(g.bg.h, g.playerH)
        /\ (g.bg.w - g.playerW < 0 => g.px = 0)
        /\ (g.bg.h - g.playerH < 0 => g.py = 0)

\* the player has walked to the right edge of a map wider than itself, and
\* on the other axis the map is smaller than the player
C1_Witness ==
    /\ pc = "running"
    /\ g.bg.w > g.playerW /\ g.px = g.bg.w - g.playerW
    /\ g.bg.h < g.playerH /\ g.py = 0

\* C2: in the startup state and after any Updates the viewport satisfies
\* 0 <= vx <= bgWidth-tileW and 0 <= vy <= bgHeight-tileH.
C2_ViewportInBounds ==
    Started =>
        /\ 0 <= g.vx /\ g.vx <= g.bg.w - g.tileW
        /\ 0 <= g.vy /\ g.vy <= g.bg.h - g.tileH

\* the camera has followed the player to the far edge of a two-tile map
C2_Witness ==
    /\ pc = "running"
    /\ g.vx > 0 /\ g.vx = g.bg.w - g.tileW

\* one axis of C3, in half-pixels: p the player coordinate, size its extent,
\* v the viewport coordinate, tile the viewport extent, dim the map extent
CentredOrPinned(p, size, v, tile, dim) ==
    /\ (0 < p /\ p < dim - size =>
            2 * v <= 2 * p + size /\ 2 * p + size <= 2 * (v + tile))
    /\ (p = 0 => v = 0)
    /\ (p = dim - size => v = dim - tile)

\* C3: after every Update, on each axis, a player not pinned at a map edge
\* has its centre inside [v, v+tile]; a player pinned at the low edge has the
\* viewport at 0 and one pinned at the high edge has it at dim-tile.
C3_CentreInViewport ==
    pc = "running" =>
        /\ CentredOrPinned(g.px, g.playerW, g.vx, g.tileW, g.bg.w)
        /\ CentredOrPinned(g.py, g.playerH, g.vy, g.tileH, g.bg.h)

\* the camera is strictly between its bounds and follows an unpinned player
C3_Witness ==
    /\ pc = "running"
    /\ 0 < g.px /\ g.px < g.bg.w - g.playerW
    /\ 0 < g.vx /\ g.vx < g.bg.w - g.tileW

\* C4: in every state from startup on, Update with no key held leaves px, py,
\* vx and vy unchanged.
C4_Idempotent == Started => Coords(Update(g, {})) = Coords(g)

\* C4 from the first Update on
C4_IdempotentAfterUpdate == pc = "running" => Coords(Update(g, {})) = Coords(g)

\* viewport values an arrow key or an earlier frame may have left behind
StaleViews(s) == {0, 7, s.bg.w, -s.tileW}

\* the viewport after Update with `keys` held is the one Update computes with
\* the arrow keys released and from any other viewport before the call
ArrowsInert(s, keys) ==
    \A v \in StaleViews(s) :
        LET a == Update(s, keys)
            b == Update([s EXCEPT !.vx = v, !.vy = v], keys \ ArrowKeys)
        IN  a.vx = b.vx /\ a.vy = b.vy /\ a.px = b.px /\ a.py = b.py

\* holding only arrow keys leaves the player where it is
ArrowsKeepPlayer(s, keys) ==
    keys # {} /\ keys \subseteq ArrowKeys =>
        LET a == Update(s, keys) IN a.px = s.px /\ a.py = s.py

\* C5: for every state and every combination of held keys the viewport after
\* Update depends neither on the arrow keys held nor on the viewport before
\* the call, and holding only arrow keys leaves px and py unchanged.
C5_ArrowKeysInert ==
    Started => ArrowsInert(g, pressed) /\ ArrowsKeepPlayer(g, pressed)

\* the part of C5 about the viewport alone
C5_ViewportPart == Started => ArrowsInert(g, pressed)

\* the part of C5 about the player, from the first Update on
C5_PlayerPartAfterUpdate == pc = "running" => ArrowsKeepPlayer(g, pressed)

\* the nearest integer to h/2, a half rounding away from zero (math.Round)
RoundHalves(h) == IF h >= 0 THEN (h + 1) \div 2 ELSE -((-h + 1) \div 2)

\* C9 as stated: the desired viewport coordinate, before clamping, is the
\* nearest integer to px + playerW/2 - tileW/2.
C9_DesiredIsRounded ==
    pc = "running" =>
        /\ DesiredVx(g) = RoundHalves(2 * g.px + g.playerW - g.tileW)
        /\ DesiredVy(g) = RoundHalves(2 * g.py + g.playerH - g.tileH)

\* d is h/2 with its fractional part dropped (toward zero)
IsTruncation(d, h) ==
    /\ (h >= 0 => 2 * d <= h /\ h < 2 * d + 2)
    /\ (h < 0 => 2 * d - 2 < h /\ h <= 2 * d)

\* C9 amended: the desired viewport coordinate, before clamping, is
\* px + playerW/2 - tileW/2 truncated toward zero.
C9_DesiredIsTruncated ==
    pc = "running" =>
        /\ IsTruncation(DesiredVx(g), 2 * g.px + g.playerW - g.tileW)
        /\ IsTruncation(DesiredVy(g), 2 * g.py + g.playerH - g.tileH)

\* an unclamped desired coordinate computed from a value with fractional part
\* one half
C9_Witness ==
    /\ pc = "running"
    /\ (2 * g.px + g.playerW - g.tileW) % 2 = 1
    /\ 0 < DesiredVx(g) /\ g.vx = DesiredVx(g)

\* C10: an Update that finds the audio player stopped rewinds it and issues
\* play; when the music set-up failed the player is never set, no Update
\* issues an audio call, and the coordinates evolve as they do with audio.
C10_AudioPolling ==
    /\ (polled = "stopped" => audioLog = <<"Rewind", "Play">>)
    /\ (polled \in {"playing", "noPlayer", "none"} => audioLog = <<>>)
    /\ (Started /\ musicErr # "none" => g.audioPlayer = Nil /\ polled # "stopped")
    /\ (Started /\ musicErr = "none" => g.audioPlayer # Nil)
    /\ (Started => Coords(g) = Coords(silent))

\* a frame found the track finished and restarted it, in a run whose player
\* has moved the camera
C10_Witness ==
    /\ pc = "running"
    /\ polled = "stopped" /\ audioLog = <<"Rewind", "Play">> /\ playing
    /\ g.vx > 0

----------------------------------------------------------------------------
(* Properties of main's tile-size derivation *)

\* c = ceil(dim / targetTile) and t = floor(dim / c), t replaced by dim when
\* the quotient is not positive
IsTileSize(dim, c, t) ==
    /\ (c - 1) * targetTile < dim /\ dim <= c * targetTile
    /\ \E q \in 0..dim :
          /\ q * c <= dim /\ dim < (q + 1) * c
          /\ t = IF q <= 0 THEN dim ELSE q

\* C6: for every background width bw >= 1, cols = ceil(bw/512) and tileW =
\* floor(bw/cols), replaced by bw when the quotient is not positive; bw = 2000
\* gives cols = 4, tileW = 500 and bw = 1000 gives cols = 2, tileW = 500; the
\* same for rows and tileH from the height.
C6_TileSize ==
    Started =>
        /\ IsTileSize(bg.w, Cols(bg.w), g.tileW)
        /\ IsTileSize(bg.h, Cols(bg.h), g.tileH)
        /\ (bg.w = 2000 => Cols(bg.w) = 4 /\ g.tileW = 500)
        /\ (bg.w = 1000 => Cols(bg.w) = 2 /\ g.tileW = 500)
        /\ (bg.h = 2000 => Cols(bg.h) = 4 /\ g.tileH = 500)
        /\ (bg.h = 1000 => Cols(bg.h) = 2 /\ g.tileH = 500)

\* main has derived the tiles of a background 2000 pixels wide
C6_Witness == Started /\ bg.w = 2000 /\ g.tileW = 500 /\ Cols(bg.w) = 4

----------------------------------------------------------------------------
(* Properties of Draw *)

\* float64(v) * scale >= float64(dim)
Covers(v, scale, dim) == FCmpInt(FMulInt(v, scale), dim) >= 0

\* C7: for every screen and tile size the scaled viewport covers the screen
\* on both axes, so both centring offsets are <= 0 and at least one is
\* exactly 0.
C7_NeverLetterboxed ==
    xf.drawn =>
        /\ Covers(xf.vw, xf.scale, xf.sw)
        /\ Covers(xf.vh, xf.scale, xf.sh)
        /\ xf.dx.sign <= 0 /\ xf.dy.sign <= 0
        /\ (xf.dx.sign = 0 \/ xf.dy.sign = 0)

\* Draw on a 1024 by 768 screen with a 500 by 500 tile
OnDefaultScreen500 ==
    xf.drawn /\ xf.sw = 1024 /\ xf.sh = 768 /\ xf.vw = 500 /\ xf.vh = 500

\* C8 as stated: for a 1024 by 768 screen and a 500 by 500 tile, scale =
\* 2.048 and offsetY = 0, offsetX nonzero only if X is the non-covering axis.
C8_OffsetYZero ==
    OnDefaultScreen500 =>
        /\ IsNearest(xf.scale, 2048, 1000)
        /\ xf.dy = FZero
        /\ (xf.dx # FZero => ~Covers(xf.vw, xf.scale, xf.sw))

\* C8 amended: for a 1024 by 768 screen and a 500 by 500 tile, scale = 2.048,
\* offsetX = (1024 - 500*2.048)/2 = 0 and offsetY = (768 - 500*2.048)/2 = -128.
C8_OffsetXZero ==
    OnDefaultScreen500 =>
        /\ IsNearest(xf.scale, 2048, 1000)
        /\ xf.dx = FZero
        /\ xf.dy = FromInt(-128)

C8_Witness == OnDefaultScreen500 /\ xf.dx = FZero

====
